---------------------------- MODULE Spec2Model ----------------------------
(***************************************************************************)
(* Byte-level image handling of the wearnow backend's virtual try-on       *)
(* function: the EXIF stripper and image inspector of                      *)
(* amplify/functions/virtual-tryon/image-processor.ts (the pure Node.js    *)
(* ImageProcessor, lines 76-242) and the format check of bedrock-client.ts.*)
(*                                                                         *)
(* A Buffer is a sequence of bytes (0..255); TLA+ sequences are 1-based,   *)
(* the code's offsets are 0-based: byte i of the code is buffer[i + 1].    *)
(* A base64 string is a sequence over 0..64: 0..63 are the alphabet's      *)
(* digits in order ('A' = 0 ... '/' = 63) and 64 is the padding '='.       *)
(***************************************************************************)
EXTENDS Integers, Sequences, FiniteSets, TLC

VARIABLES
    buf,      \* the bytes of the S3 object that is downloaded
    mode,     \* how buf was composed: "head", "segs", "sos", "broken"
    segs,     \* the complete marker segments put after SOI: [off, total, marker]
    sosAt,    \* offset of the SOS marker put after the segments, or -1
    defect,   \* the structural defect put after the segments: [kind, off], kind "none" if absent
    ntail,    \* number of pieces appended after SOS or after the defect
    pc,       \* "build" while the object is written, then one state per call made on it
    info,     \* result of getImageInfo(image)
    clean,    \* result of processImageForBedrock(image), a base64 string
    log,      \* console lines of that call
    valid,    \* result of validateImageFormat(image)
    clean2,   \* result of processImageForBedrock(clean)
    log2,     \* console lines of that second call
    encoded,  \* an encoded string whose decoded size is estimated
    size,     \* result of getImageSize(encoded)
    imageDimensions,  \* result of getImageDimensions(image)
    walkAt,   \* the offset i of the loop that is being executed step by step
    iters,    \* iterations that loop has made
    event,    \* event.arguments of the invocation of the handler
    env,      \* process.env of the invocation
    userPhotoBase64,          \* the downloaded user photo
    garmentPhotoBase64,       \* the downloaded garment photo
    cleanUserPhotoBase64,     \* processImageForBedrock(userPhotoBase64)
    cleanGarmentPhotoBase64,  \* processImageForBedrock(garmentPhotoBase64)
    bedrockRequests,          \* the calls of bedrockClient.virtualTryOn
    s3Gets,                   \* the keys asked for by downloadImageAsBase64
    s3Puts,                   \* the objects written by uploadBase64Image
    response,                 \* what the handler returned
    history,                  \* the TryOnHistory record of event.historyId
    uploads,    \* event.Records of the upload that started the thumbnail function
    pending,    \* the S3 events that are not delivered yet
    records,    \* event.Records of the delivered event
    recordAt,   \* index of the record the loop is at, 0 when no invocation runs
    trail,      \* what the invocation did with each record it examined
    threw,      \* whether the invocation ended with an error
    thumbGets,  \* the keys of the GetObject requests of the thumbnail function
    thumbPuts   \* the objects written by the thumbnail function

handlerVars == <<event, env, userPhotoBase64, garmentPhotoBase64, cleanUserPhotoBase64,
                 cleanGarmentPhotoBase64, bedrockRequests, s3Gets, s3Puts, response,
                 history>>

thumbVars == <<uploads, pending, records, recordAt, trail, threw, thumbGets, thumbPuts>>

vars == <<buf, mode, segs, sosAt, defect, ntail, pc, info, clean, log, valid, clean2, log2,
          encoded, size, imageDimensions, walkAt, iters, handlerVars, thumbVars>>

---------------------------------------------------------------------------
(* Bounds of the inputs *)

\* complete segments between SOI and SOS (or the defect)
MaxSegs == 2
\* pieces of trailing data after SOS or after a defect
MaxTail == 1
\* bytes of an input written byte by byte
MaxHead == 4
\* characters of an encoded string given to getImageSize
MaxText == 100

---------------------------------------------------------------------------
(* Bytes the code names *)

\* 0xFF, first byte of every marker
MARKER == 255
\* 0xD8, start of image
SOI == 216
\* 0xE1, APP1 (EXIF)
APP1 == 225
\* 0xDA, start of scan
SOS == 218
\* 0xC0, baseline frame header
SOF0 == 192
\* 0xD0 and 0xD9, the range of the markers without a length field
STANDALONE_FIRST == 208
STANDALONE_LAST == 217
\* the getImageInfo walk looks at offsets below 1000 only
WalkLimit == 1000
\* 0x89 'P' 'N' 'G'
PNG0 == 137
PNG1 == 80
PNG2 == 78
PNG3 == 71

\* what buffer[i] is when i is not an index of the buffer (JavaScript's undefined)
Undefined == -1

---------------------------------------------------------------------------
(* Node's Buffer *)

Min(a, b) == IF a < b THEN a ELSE b

\* buffer[i]
At(buffer, i) == IF i >= 0 /\ i < Len(buffer) THEN buffer[i + 1] ELSE Undefined

\* buffer.subarray(start, end): both ends clamped to the buffer
subarray(buffer, start, end) ==
    LET s == Min(start, Len(buffer))
        e == Min(end, Len(buffer))
    IN  IF e <= s THEN << >> ELSE SubSeq(buffer, s + 1, e)

\* readUInt16BE / readUInt32BE throw a RangeError unless the bytes lie in the buffer
canRead(buffer, offset, width) == offset >= 0 /\ offset + width <= Len(buffer)

readUInt16BE(buffer, offset) == buffer[offset + 1] * 256 + buffer[offset + 2]

\* A JavaScript number n of 0..2^32 - 1 is kept as its two 16-bit halves,
\* n = hi * 65536 + lo: 2^32 - 1 is beyond the integers of the model checker.
Num(n) == [hi |-> n \div 65536, lo |-> n % 65536]

\* variant: readInt32BE, the signed read, negative from 2^31 on
readInt32BE(buffer, offset) ==
    [hi |-> IF buffer[offset + 1] >= 128 THEN readUInt16BE(buffer, offset) - 65536
            ELSE readUInt16BE(buffer, offset),
     lo |-> readUInt16BE(buffer, offset + 2)]

readUInt32BE(buffer, offset) ==
    [hi |-> readUInt16BE(buffer, offset), lo |-> readUInt16BE(buffer, offset + 2)]

\* Buffer.concat(chunks)
RECURSIVE concat(_)
concat(chunks) ==
    IF chunks = << >> THEN << >> ELSE Head(chunks) \o concat(Tail(chunks))

\* the padding character of a base64 string
B64Pad == 64

\* buffer.toString('base64'): 3 bytes become 4 digits, the last group is padded
toBase64(buffer) ==
    LET n == Len(buffer)
        byte(j) == IF j < n THEN buffer[j + 1] ELSE 0
        digit(k) ==
            LET g == (k - 1) \div 4
                p == (k - 1) % 4
                b0 == byte(3 * g)
                b1 == byte(3 * g + 1)
                b2 == byte(3 * g + 2)
            IN  CASE p = 0 -> b0 \div 4
                  [] p = 1 -> (b0 % 4) * 16 + (b1 \div 16)
                  [] p = 2 -> IF 3 * g + 1 >= n THEN B64Pad
                              ELSE (b1 % 16) * 4 + (b2 \div 64)
                  [] OTHER -> IF 3 * g + 2 >= n THEN B64Pad ELSE b2 % 64
    IN  [k \in 1..(4 * ((n + 2) \div 3)) |-> digit(k)]

\* Buffer.from(text, 'base64'): decoding stops at the first padding character;
\* every 4 digits give 3 bytes, a last group of 2 or 3 digits gives 1 or 2
fromBase64(text) ==
    LET pads == {k \in 1..Len(text) : text[k] = B64Pad}
        m == IF pads = {} THEN Len(text)
             ELSE (CHOOSE k \in pads : \A q \in pads : k <= q) - 1
        digit(k) == IF k <= m THEN text[k] ELSE 0
        byte(j) ==
            LET g == (j - 1) \div 3
                r == (j - 1) % 3
                d0 == digit(4 * g + 1)
                d1 == digit(4 * g + 2)
                d2 == digit(4 * g + 3)
                d3 == digit(4 * g + 4)
            IN  CASE r = 0 -> d0 * 4 + (d1 \div 16)
                  [] r = 1 -> (d1 % 16) * 16 + (d2 \div 4)
                  [] OTHER -> (d2 % 4) * 64 + d3
    IN  [j \in 1..((m * 3) \div 4) |-> byte(j)]

---------------------------------------------------------------------------
(* ImageProcessor.stripJPEGExif and processImageForBedrock *)

\* a call either returns a value or throws; either way it has written console lines
Returned(v, lines) == [threw |-> FALSE, value |-> v, lines |-> lines]
Thrown(lines) == [threw |-> TRUE, value |-> << >>, lines |-> lines]

\* variant: "and" for "or", so that one right byte is enough to be taken for a JPEG
notJPEGBothWrong(inputBuffer) == At(inputBuffer, 0) # MARKER /\ At(inputBuffer, 1) # SOI

\* the JPEG test of processImageForBedrock: "not a JPEG" unless FF D8 lead
notJPEG(inputBuffer) == At(inputBuffer, 0) # MARKER \/ At(inputBuffer, 1) # SOI

\* the loop condition of stripJPEGExif
stripContinues(buffer, i) == i < Len(buffer) - 1

\* marker >= 0xD0 && marker <= 0xD9
isStandalone(marker) == marker >= STANDALONE_FIRST /\ marker <= STANDALONE_LAST

\* variant: the length field is taken to include the marker
nextOffsetNoMarker(i, segmentLength) == i + segmentLength

\* i += 2 + segmentLength
nextOffset(i, segmentLength) == i + 2 + segmentLength

\* what the walk returns when the byte at a marker position is not 0xFF
onInvalidStructure(buffer, chunks) == buffer

\* variant: the scan is copied without its SOS marker
sosChunkNoMarker(buffer, i) == subarray(buffer, i + 2, Len(buffer))

\* variant: only the SOS marker is copied, the scan data is not
sosChunkMarkerOnly(buffer, i) == subarray(buffer, i, i + 2)

\* chunks.push(buffer.subarray(i)) at SOS
sosChunk(buffer, i) == subarray(buffer, i, Len(buffer))

\* chunks.push(buffer.subarray(i, i + 2)) for a standalone marker
standaloneChunk(buffer, i) == subarray(buffer, i, i + 2)

\* variant: the 2 marker bytes are not counted in the end of the slice
segmentChunkShort(buffer, i, segmentLength) == subarray(buffer, i, i + segmentLength)

\* variant: the slice runs on over the next marker
segmentChunkLong(buffer, i, segmentLength) == subarray(buffer, i, i + 4 + segmentLength)

\* chunks.push(buffer.subarray(i, i + 2 + segmentLength)) for any other marker
segmentChunk(buffer, i, segmentLength) == subarray(buffer, i, i + 2 + segmentLength)

\* variant: APP0 (0xE0) taken for the EXIF marker
isExifMarkerAPP0(marker) == marker = 224

\* whether the walk keeps the segment of this marker (everything but APP1)
isExifMarker(marker) == marker = APP1

RECURSIVE stripWalk(_, _, _, _)
stripWalk(buffer, i, chunks, lines) ==
    IF ~stripContinues(buffer, i) THEN Returned(concat(chunks), lines)
    ELSE IF At(buffer, i) # MARKER
    THEN Returned(onInvalidStructure(buffer, chunks),
                  Append(lines, "Invalid JPEG structure, returning original"))
    ELSE LET marker == At(buffer, i + 1) IN
        IF isExifMarker(marker) THEN
            IF ~canRead(buffer, i + 2, 2) THEN Thrown(lines)
            ELSE stripWalk(buffer, nextOffset(i, readUInt16BE(buffer, i + 2)), chunks,
                           Append(lines, "Skipping EXIF segment"))
        ELSE IF marker = SOS THEN
            Returned(concat(Append(chunks, sosChunk(buffer, i))), lines)
        ELSE IF isStandalone(marker) THEN
            stripWalk(buffer, i + 2, Append(chunks, standaloneChunk(buffer, i)), lines)
        ELSE IF ~canRead(buffer, i + 2, 2) THEN Thrown(lines)
        ELSE LET segmentLength == readUInt16BE(buffer, i + 2) IN
            stripWalk(buffer, nextOffset(i, segmentLength),
                      Append(chunks, segmentChunk(buffer, i, segmentLength)), lines)

stripJPEGExif(buffer) == stripWalk(buffer, 2, << <<MARKER, SOI>> >>, << >>)

\* the value processImageForBedrock returns from its catch block
onProcessingError(base64Image) == base64Image

processImageForBedrock(base64Image) ==
    LET inputBuffer == fromBase64(base64Image) IN
    IF notJPEG(inputBuffer)
    THEN Returned(base64Image, <<"Image is not JPEG, returning as-is">>)
    ELSE LET r == stripJPEGExif(inputBuffer)
             lines == <<"Processing JPEG to remove EXIF metadata">> \o r.lines
         IN  IF r.threw
             THEN Returned(onProcessingError(base64Image),
                           Append(lines, "Error processing image, returning original"))
             ELSE Returned(toBase64(r.value), lines)

---------------------------------------------------------------------------
(* ImageProcessor.getImageInfo *)

\* while (i < Math.min(inputBuffer.length - 1, 1000))
infoContinues(inputBuffer, i) == i < Min(Len(inputBuffer) - 1, WalkLimit)

\* if (marker === 0xC0): the markers whose segment the dimensions are read from
isFrameMarker(marker) == marker = SOF0

\* height = readUInt16BE(i + 5); width = readUInt16BE(i + 7)
heightOffset(i) == i + 5
widthOffset(i) == i + 7

\* the object returned from the catch block of getImageInfo
infoOnError == [format |-> "unknown", width |-> Num(0), height |-> Num(0), hasExif |-> FALSE]

\* the JPEG walk of getImageInfo; value is [width, height, hasExif]
RECURSIVE infoWalk(_, _, _)
infoWalk(inputBuffer, i, hasExif) ==
    IF ~infoContinues(inputBuffer, i)
    THEN Returned([width |-> Num(0), height |-> Num(0), hasExif |-> hasExif], << >>)
    ELSE IF At(inputBuffer, i) = MARKER THEN
        LET marker == At(inputBuffer, i + 1)
            exif == hasExif \/ marker = APP1
        IN  IF isFrameMarker(marker) THEN
                IF ~canRead(inputBuffer, heightOffset(i), 2)
                   \/ ~canRead(inputBuffer, widthOffset(i), 2)
                THEN Thrown(<<"Error getting image info">>)
                ELSE Returned([width |-> Num(readUInt16BE(inputBuffer, widthOffset(i))),
                               height |-> Num(readUInt16BE(inputBuffer, heightOffset(i))),
                               hasExif |-> exif], << >>)
            ELSE IF isStandalone(marker) THEN infoWalk(inputBuffer, i + 2, exif)
            ELSE IF ~canRead(inputBuffer, i + 2, 2) THEN Thrown(<<"Error getting image info">>)
            ELSE infoWalk(inputBuffer, nextOffset(i, readUInt16BE(inputBuffer, i + 2)), exif)
    ELSE Returned([width |-> Num(0), height |-> Num(0), hasExif |-> hasExif], << >>)

\* variant: the fourth signature byte is not compared
isPNGThreeBytes(buffer) ==
    /\ At(buffer, 0) = PNG0
    /\ At(buffer, 1) = PNG1
    /\ At(buffer, 2) = PNG2

\* the PNG test shared by getImageInfo and validateImageFormat
isPNG(buffer) ==
    /\ At(buffer, 0) = PNG0
    /\ At(buffer, 1) = PNG1
    /\ At(buffer, 2) = PNG2
    /\ At(buffer, 3) = PNG3

getImageInfo(base64Image) ==
    LET inputBuffer == fromBase64(base64Image) IN
    IF At(inputBuffer, 0) = MARKER /\ At(inputBuffer, 1) = SOI THEN
        LET r == infoWalk(inputBuffer, 2, FALSE) IN
        IF r.threw THEN infoOnError
        ELSE [format |-> "jpeg", width |-> r.value.width, height |-> r.value.height,
              hasExif |-> r.value.hasExif]
    ELSE IF isPNG(inputBuffer) THEN
        IF ~canRead(inputBuffer, 16, 4) \/ ~canRead(inputBuffer, 20, 4) THEN infoOnError
        ELSE [format |-> "png", width |-> readUInt32BE(inputBuffer, 16),
              height |-> readUInt32BE(inputBuffer, 20), hasExif |-> FALSE]
    ELSE [format |-> "unknown", width |-> Num(0), height |-> Num(0), hasExif |-> FALSE]

---------------------------------------------------------------------------
(* BedrockImageManipulation.validateImageFormat *)

\* variant: only the first byte is compared
isJPEGFirstByte(buffer) == At(buffer, 0) = MARKER

\* const isJPEG = buffer[0] === 0xFF && buffer[1] === 0xD8
isJPEG(buffer) == At(buffer, 0) = MARKER /\ At(buffer, 1) = SOI

validateImageFormat(base64Image) ==
    LET buffer == fromBase64(base64Image) IN isJPEG(buffer) \/ isPNG(buffer)

---------------------------------------------------------------------------
(* BedrockImageManipulation.getImageSize *)

\* (base64Image.match(/=/g) || []).length
paddingCount(base64Image) ==
    Cardinality({k \in 1..Len(base64Image) : base64Image[k] = B64Pad})

\* base64Image.length * 0.75 - padding, a floating-point number: the value is
\* quarters / 4, and it is an integer only when quarters is a multiple of 4
getImageSize(base64Image) ==
    [quarters |-> 3 * Len(base64Image) - 4 * paddingCount(base64Image)]

---------------------------------------------------------------------------
(* BedrockImageManipulation.getImageDimensions *)

\* the digits of 'iVBORw0KGgo' and of '/9j/' in the base64 alphabet
PngPrefix == <<34, 21, 1, 14, 17, 48, 52, 10, 6, 32, 40>>
JpegPrefix == <<63, 61, 35, 63>>

\* base64Image.startsWith(prefix)
startsWith(base64Image, prefix) ==
    /\ Len(base64Image) >= Len(prefix)
    /\ SubSeq(base64Image, 1, Len(prefix)) = prefix

\* return null
Null == [isNull |-> TRUE, width |-> Num(0), height |-> Num(0)]

\* for (let i = 0; i < buffer.length - 9; i++)
dimsContinues(buffer, i) == i < Len(buffer) - 9

\* if (buffer[i] === 0xFF && buffer[i + 1] === 0xC0)
dimsFound(buffer, i) == At(buffer, i) = MARKER /\ At(buffer, i + 1) = SOF0

getImageDimensions(base64Image) ==
    LET buffer == fromBase64(base64Image) IN
    IF startsWith(base64Image, PngPrefix) THEN
        IF ~canRead(buffer, 16, 4) \/ ~canRead(buffer, 20, 4) THEN Null
        ELSE [isNull |-> FALSE, width |-> readUInt32BE(buffer, 16),
              height |-> readUInt32BE(buffer, 20)]
    ELSE IF startsWith(base64Image, JpegPrefix) THEN
        LET hits == {i \in 0..(Len(buffer) - 10) : dimsFound(buffer, i)} IN
        IF hits = {} THEN Null
        ELSE LET i == CHOOSE h \in hits : \A g \in hits : h <= g
             IN  [isNull |-> FALSE, width |-> Num(readUInt16BE(buffer, widthOffset(i))),
                  height |-> Num(readUInt16BE(buffer, heightOffset(i)))]
    ELSE Null

---------------------------------------------------------------------------
(* The inputs: the bytes of the object that S3Utils.downloadImageAsBase64    *)
(* reads.  An input is either written byte by byte (any short buffer) or    *)
(* composed as a JPEG: SOI, complete marker segments, then SOS or one       *)
(* structural defect, then trailing data.                                   *)

\* bytes of an input written byte by byte: the magic numbers
HeadBytes == {MARKER, SOI, PNG0, PNG1, PNG2, PNG3}

\* payload of the 20-byte APP1 segment: "Exif", then zeros
ExifPayload == [k \in 1..16 |-> CASE k = 1 -> 69 [] k = 2 -> 120 [] k = 3 -> 105
                                  [] k = 4 -> 102 [] OTHER -> 0]

\* the marker segments with a length field: marker and payload
\*   APP1 without payload, APP1 of 20 bytes, APP0 whose payload reads FF E1,
\*   SOF0 of height 50 and width 258, SOF2 of height 3 and width 100
Segments ==
    { [marker |-> APP1, payload |-> << >>],
      [marker |-> APP1, payload |-> ExifPayload],
      [marker |-> 224,  payload |-> <<MARKER, APP1>>],
      [marker |-> SOF0, payload |-> <<8, 0, 50, 1, 2, 1, 1, 17, 0>>],
      [marker |-> 194,  payload |-> <<8, 0, 3, 0, 100, 1, 1, 17, 0>>] }

\* FF marker, big-endian length (the payload and the 2 length bytes), payload
segmentBytes(s) ==
    LET n == Len(s.payload) + 2 IN <<MARKER, s.marker, n \div 256, n % 256>> \o s.payload

\* an APP1 segment that ends exactly at offset WalkLimit + 2
BigSegment == [marker |-> APP1, payload |-> [k \in 1..(WalkLimit - 4) |-> 0]]

\* the structural defects: a byte that is no marker, a segment that declares 32
\* bytes and has 1, a marker whose length field is cut, a length field below 2
Defects ==
    { [kind |-> "nonff",   bytes |-> <<0>>],
      [kind |-> "overrun", bytes |-> <<MARKER, APP1, 0, 32, 0>>],
      [kind |-> "overrun", bytes |-> <<MARKER, 224, 0, 32, 0>>],
      [kind |-> "nolen",   bytes |-> <<MARKER, 224, 0>>],
      [kind |-> "short",   bytes |-> <<MARKER, APP1, 0, 1>>],
      [kind |-> "short",   bytes |-> <<MARKER, 224, 0, 0>>] }

\* pieces of trailing data: a data byte, bytes that read as an APP1 segment, EOI
TailPieces == { <<0>>, <<MARKER, APP1, 0, 2>>, <<MARKER, STANDALONE_LAST>> }

\* the 8 signature bytes of a PNG file, then the length and type of its IHDR chunk
PngHeader == <<PNG0, PNG1, PNG2, PNG3, 13, 10, 26, 10, 0, 0, 0, 13, 73, 72, 68, 82>>

\* width and height bytes of the IHDR: 64 x 32, and 2^32 - 1 x 2^31
PngDims ==
    { [w |-> <<0, 0, 0, 64>>, h |-> <<0, 0, 0, 32>>],
      [w |-> <<255, 255, 255, 255>>, h |-> <<128, 0, 0, 0>>] }

\* lengths at which a PNG is cut: whole up to the height, and inside or before it
PngCuts == {24, 23, 20, 8}

\* a frame header segment: precision, height, width, one component
Frame(marker, h, w) ==
    <<MARKER, marker, 0, 11, 8, h \div 256, h % 256, w \div 256, w % 256, 1, 1, 17, 0>>

\* an APP0 segment, an APP1 segment, and SOS with scan data and EOI
App0Bytes == <<MARKER, 224, 0, 4, 74, 70>>
App1Bytes == segmentBytes([marker |-> APP1, payload |-> ExifPayload])
ScanBytes == <<MARKER, SOS, 0, 2, 7, 7, MARKER, STANDALONE_LAST>>

\* the objects of the bucket: the bytes, and the width and height they encode
S3Objects ==
    [ plain  |-> [bytes |-> <<MARKER, SOI>> \o App0Bytes \o Frame(SOF0, 50, 258) \o ScanBytes,
                  w |-> 258, h |-> 50],
      exif   |-> [bytes |-> <<MARKER, SOI>> \o App1Bytes \o Frame(SOF0, 50, 258) \o ScanBytes,
                  w |-> 258, h |-> 50],
      limit  |-> [bytes |-> <<MARKER, SOI>> \o Frame(SOF0, 2048, 2048) \o ScanBytes,
                  w |-> 2048, h |-> 2048],
      large  |-> [bytes |-> <<MARKER, SOI>> \o Frame(SOF0, 2048, 2049) \o ScanBytes,
                  w |-> 2049, h |-> 2048],
      progressive |->
                 [bytes |-> <<MARKER, SOI>> \o Frame(194, 4096, 4096) \o ScanBytes,
                  w |-> 4096, h |-> 4096],
      broken |-> [bytes |-> <<MARKER, SOI>> \o App1Bytes \o <<0>> \o Frame(SOF0, 50, 258)
                            \o ScanBytes,
                  w |-> 258, h |-> 50],
      png    |-> [bytes |-> PngHeader \o <<0, 0, 0, 64, 0, 0, 0, 32, 8>>, w |-> 64, h |-> 32],
      bigpng |-> [bytes |-> PngHeader \o <<0, 0, 16, 0, 0, 0, 16, 0, 8>>,
                  w |-> 4096, h |-> 4096],
      gif    |-> [bytes |-> <<71, 73, 70, 56>>, w |-> 0, h |-> 0],
      tiny   |-> [bytes |-> <<MARKER, SOI>>, w |-> 0, h |-> 0] ]

\* the keys of the objects, and a key the bucket does not have
Keys == DOMAIN S3Objects
MissingKey == "missing"

\* the keys of the bucket, split at '/': the photos of user u1, and one user
\* photo of another user and one garment photo
Bucket ==
    {<<"user-photos", "u1", k>> : k \in Keys}
    \cup {<<"user-photos", "u2", "plain">>, <<"garment-photos", "u1", "plain">>}

\* event.arguments.userPhotoUrl, garmentPhotoUrl: a key, or a URL whose path
\* holds the key; the empty string has no parts
PhotoUrls ==
    [hasScheme : {FALSE},
     parts : Bucket \cup {<<"user-photos", "u1", MissingKey>>, << >>}]
    \cup [hasScheme : {TRUE},
          parts : {<<"", "user-photos", "u1", "plain">>, <<"", "user-photos", "u1", "exif">>}]

\* process.env.MAX_IMAGE_SIZE: not set, or a number
Unset == -1
DefaultMaxImageSize == 10485760
SmallMaxImageSize == 24

NoEvent ==
    [userId |-> "", historyId |-> "",
     userPhotoUrl |-> [hasScheme |-> FALSE, parts |-> << >>],
     garmentPhotoUrl |-> [hasScheme |-> FALSE, parts |-> << >>]]

NoResponse == [success |-> FALSE, historyId |-> "", errorMessage |-> "", resultUrl |-> << >>,
               returned |-> FALSE]

NoHistory == [id |-> "", status |-> "", resultPhotoUrl |-> << >>, errorMessage |-> ""]

NoInfo == [format |-> "none", width |-> Num(0), height |-> Num(0), hasExif |-> FALSE]
NoDefect == [kind |-> "none", off |-> 0]

Init ==
    /\ buf = << >>
    /\ mode = "head"
    /\ segs = << >>
    /\ sosAt = -1
    /\ defect = NoDefect
    /\ ntail = 0
    /\ pc = "build"
    /\ info = NoInfo
    /\ clean = << >>
    /\ log = << >>
    /\ valid = FALSE
    /\ clean2 = << >>
    /\ log2 = << >>
    /\ encoded = << >>
    /\ size = [quarters |-> 0]
    /\ imageDimensions = Null
    /\ walkAt = 0
    /\ iters = 0
    /\ event = NoEvent
    /\ env = [S3_BUCKET_NAME |-> "", MAX_IMAGE_SIZE |-> Unset]
    /\ userPhotoBase64 = << >>
    /\ garmentPhotoBase64 = << >>
    /\ cleanUserPhotoBase64 = << >>
    /\ cleanGarmentPhotoBase64 = << >>
    /\ bedrockRequests = << >>
    /\ s3Gets = << >>
    /\ s3Puts = << >>
    /\ response = NoResponse
    /\ history = NoHistory
    /\ uploads = << >>
    /\ pending = << >>
    /\ records = << >>
    /\ recordAt = 0
    /\ trail = << >>
    /\ threw = FALSE
    /\ thumbGets = << >>
    /\ thumbPuts = << >>

\* the loop executed step by step
walkVars == <<walkAt, iters>>

\* what the inspection of one image leaves alone
others == <<walkVars, handlerVars, thumbVars>>

results == <<info, clean, log, valid, clean2, log2, encoded, size, imageDimensions>>

\* one more byte of an input written byte by byte
PutByte(b) ==
    /\ pc = "build" /\ mode = "head" /\ segs = << >>
    /\ Len(buf) < MaxHead
    /\ buf' = Append(buf, b)
    /\ UNCHANGED <<mode, segs, sosAt, defect, ntail, pc, results, others>>

\* start a composed JPEG
PutSOI ==
    /\ pc = "build" /\ mode = "head" /\ buf = << >>
    /\ buf' = <<MARKER, SOI>>
    /\ mode' = "segs"
    /\ UNCHANGED <<segs, sosAt, defect, ntail, pc, results, others>>

appendSegment(bytes, marker) ==
    /\ buf' = buf \o bytes
    /\ segs' = Append(segs, [off |-> Len(buf), total |-> Len(bytes), marker |-> marker])
    /\ UNCHANGED <<mode, sosAt, defect, ntail, pc, results, others>>

\* an input longer than WalkLimit takes one more segment and no defect
isLarge == Len(buf) >= WalkLimit

PutSegment(s) ==
    /\ pc = "build" /\ mode = "segs" /\ Len(segs) < MaxSegs
    /\ isLarge => Len(segs) < 2
    /\ appendSegment(segmentBytes(s), s.marker)

\* a restart marker: 2 bytes, no length field
PutStandalone ==
    /\ pc = "build" /\ mode = "segs" /\ Len(segs) < MaxSegs
    /\ isLarge => Len(segs) < 2
    /\ appendSegment(<<MARKER, STANDALONE_FIRST>>, STANDALONE_FIRST)

\* a large EXIF block right after SOI
PutBigSegment ==
    /\ pc = "build" /\ mode = "segs" /\ segs = << >> /\ MaxSegs > 0
    /\ appendSegment(segmentBytes(BigSegment), BigSegment.marker)

PutSOS ==
    /\ pc = "build" /\ mode = "segs"
    /\ buf' = buf \o <<MARKER, SOS>>
    /\ sosAt' = Len(buf)
    /\ mode' = "sos"
    /\ UNCHANGED <<segs, defect, ntail, pc, results, others>>

PutDefect(d) ==
    /\ pc = "build" /\ mode = "segs" /\ ~isLarge
    /\ buf' = buf \o d.bytes
    /\ defect' = [kind |-> d.kind, off |-> Len(buf)]
    /\ mode' = "broken"
    /\ UNCHANGED <<segs, sosAt, ntail, pc, results, others>>

PutTail(t) ==
    /\ pc = "build" /\ mode \in {"sos", "broken"} /\ ntail < MaxTail
    /\ buf' = buf \o t
    /\ ntail' = ntail + 1
    /\ UNCHANGED <<mode, segs, sosAt, defect, pc, results, others>>

\* a PNG: signature, IHDR with width and height, cut after n bytes
PutPNG(d, n) ==
    /\ pc = "build" /\ mode = "head" /\ buf = << >>
    /\ buf' = SubSeq(PngHeader \o d.w \o d.h, 1, n)
    /\ mode' = "png"
    /\ UNCHANGED <<segs, sosAt, defect, ntail, pc, results, others>>

input == <<buf, mode, segs, sosAt, defect, ntail>>

\* S3Utils.downloadImageAsBase64: the object's bytes as a base64 string
image == toBase64(buf)

\* handler step 2: ImageProcessor.getImageInfo(userPhotoBase64)
GetImageInfo ==
    /\ pc = "build"
    /\ info' = getImageInfo(image)
    /\ pc' = "info"
    /\ UNCHANGED <<input, clean, log, valid, clean2, log2, encoded, size, imageDimensions, others>>

\* handler step 2: ImageProcessor.processImageForBedrock(userPhotoBase64)
ProcessImage ==
    /\ pc = "info"
    /\ LET r == processImageForBedrock(image) IN
        /\ clean' = r.value
        /\ log' = r.lines
    /\ pc' = "processed"
    /\ UNCHANGED <<input, info, valid, clean2, log2, encoded, size, imageDimensions, others>>

\* BedrockImageManipulation.validateImageFormat applied to the downloaded image
ValidateFormat ==
    /\ pc = "processed"
    /\ valid' = validateImageFormat(image)
    /\ pc' = "validated"
    /\ UNCHANGED <<input, info, clean, log, clean2, log2, encoded, size, imageDimensions, others>>

\* the stripper applied to its own output
ProcessAgain ==
    /\ pc = "validated"
    /\ LET r == processImageForBedrock(clean) IN
        /\ clean2' = r.value
        /\ log2' = r.lines
    /\ pc' = "done"
    /\ UNCHANGED <<input, info, clean, log, valid, encoded, size, imageDimensions, others>>

\* BedrockImageManipulation.getImageDimensions applied to the same image
GetDimensions ==
    /\ pc = "done"
    /\ imageDimensions' = getImageDimensions(image)
    /\ pc' = "measured"
    /\ UNCHANGED <<input, info, clean, log, valid, clean2, log2, encoded, size, others>>

\* BedrockImageManipulation.getImageSize applied to a string of n characters
\* that ends with p padding characters
EstimateSize(n, p) ==
    /\ pc = "build" /\ mode = "head" /\ buf = << >>
    /\ encoded' = [k \in 1..n |-> IF k > n - p THEN B64Pad ELSE 0]
    /\ size' = getImageSize(encoded')
    /\ pc' = "sized"
    /\ UNCHANGED <<input, info, clean, log, valid, clean2, log2, imageDimensions, others>>

Next ==
    \/ \E b \in HeadBytes : PutByte(b)
    \/ PutSOI
    \/ \E s \in Segments : PutSegment(s)
    \/ PutStandalone
    \/ PutBigSegment
    \/ PutSOS
    \/ \E d \in Defects : PutDefect(d)
    \/ \E t \in TailPieces : PutTail(t)
    \/ \E d \in PngDims, n \in PngCuts : PutPNG(d, n)
    \/ \E n \in 0..MaxText : \E p \in 0..Min(n, 2) : EstimateSize(n, p)
    \/ GetImageInfo
    \/ ProcessImage
    \/ ValidateFormat
    \/ ProcessAgain
    \/ GetDimensions

Spec == Init /\ [][Next]_vars

\* the types of the state
TypeOK ==
    /\ buf \in Seq(0..255)
    /\ pc \in {"build", "info", "processed", "validated", "done", "measured", "sized",
              "stripWalk", "infoWalk", "dimsLoop", "stopped",
              "downloadUser", "downloadGarment", "bedrock", "upload", "returned"}
    /\ response.success \in BOOLEAN /\ response.returned \in BOOLEAN
    /\ history.status \in {"", "PROCESSING", "COMPLETED", "FAILED"}
    /\ walkAt \in Nat /\ iters \in Nat
    /\ mode \in {"head", "segs", "sos", "broken", "png"}
    /\ recordAt \in 0..(Len(records) + 1) /\ threw \in BOOLEAN

---------------------------------------------------------------------------
(* What the properties speak about *)

\* processImageForBedrock has returned
processed == pc \in {"processed", "validated", "done", "measured"}

\* the bytes of the cleaned image
cleanBytes == fromBase64(clean)

startsJPEG(b) == Len(b) >= 2 /\ b[1] = 255 /\ b[2] = 216
startsPNG(b) == Len(b) >= 4 /\ b[1] = 137 /\ b[2] = 80 /\ b[3] = 78 /\ b[4] = 71

\* big-endian 16-bit value at a 0-based offset of the input
be16(off) == buf[off + 1] * 256 + buf[off + 2]

\* the input is SOI and complete segments, with or without SOS and trailing data
wellFormed == mode \in {"segs", "sos"}

---------------------------------------------------------------------------
(* The three loops, one iteration per step: the marker walks of            *)
(* stripJPEGExif and getImageInfo and the byte scan of getImageDimensions.  *)

\* the loop is left: its condition fails, it breaks, returns or throws
Stop == -2

\* one iteration of the loop of stripJPEGExif at offset i: the next offset
stripStep(buffer, i) ==
    IF ~stripContinues(buffer, i) THEN Stop
    ELSE IF At(buffer, i) # MARKER THEN Stop
    ELSE LET marker == At(buffer, i + 1) IN
        IF isExifMarker(marker) THEN
            IF ~canRead(buffer, i + 2, 2) THEN Stop
            ELSE nextOffset(i, readUInt16BE(buffer, i + 2))
        ELSE IF marker = SOS THEN Stop
        ELSE IF isStandalone(marker) THEN i + 2
        ELSE IF ~canRead(buffer, i + 2, 2) THEN Stop
        ELSE nextOffset(i, readUInt16BE(buffer, i + 2))

\* one iteration of the JPEG loop of getImageInfo at offset i: the next offset
infoStep(inputBuffer, i) ==
    IF ~infoContinues(inputBuffer, i) THEN Stop
    ELSE IF At(inputBuffer, i) # MARKER THEN Stop
    ELSE LET marker == At(inputBuffer, i + 1) IN
        IF isFrameMarker(marker) THEN Stop
        ELSE IF isStandalone(marker) THEN i + 2
        ELSE IF ~canRead(inputBuffer, i + 2, 2) THEN Stop
        ELSE nextOffset(i, readUInt16BE(inputBuffer, i + 2))

\* one iteration of the loop of getImageDimensions at offset i: the next offset
dimsStep(buffer, i) ==
    IF ~dimsContinues(buffer, i) THEN Stop
    ELSE IF dimsFound(buffer, i) THEN Stop
    ELSE i + 1

\* the loop a call enters for this input, and its first offset
StartStrip ==
    /\ pc = "build" /\ ~notJPEG(buf)
    /\ pc' = "stripWalk" /\ walkAt' = 2 /\ iters' = 0
    /\ UNCHANGED <<input, results, handlerVars, thumbVars>>

StartInfo ==
    /\ pc = "build" /\ At(buf, 0) = MARKER /\ At(buf, 1) = SOI
    /\ pc' = "infoWalk" /\ walkAt' = 2 /\ iters' = 0
    /\ UNCHANGED <<input, results, handlerVars, thumbVars>>

StartDims ==
    /\ pc = "build"
    /\ ~startsWith(image, PngPrefix) /\ startsWith(image, JpegPrefix)
    /\ pc' = "dimsLoop" /\ walkAt' = 0 /\ iters' = 0
    /\ UNCHANGED <<input, results, handlerVars, thumbVars>>

\* the loop condition is tested and, if it holds, the body runs once: the loop
\* is left or goes on at the next offset
Iterate(loop, continues, next) ==
    /\ pc = loop /\ iters <= Len(buf)
    /\ IF next = Stop
       THEN pc' = "stopped" /\ UNCHANGED walkAt
       ELSE pc' = pc /\ walkAt' = next
    /\ iters' = IF continues THEN iters + 1 ELSE iters
    /\ UNCHANGED <<input, results, handlerVars, thumbVars>>

StripIteration ==
    Iterate("stripWalk", stripContinues(buf, walkAt), stripStep(buf, walkAt))

InfoIteration ==
    Iterate("infoWalk", infoContinues(buf, walkAt), infoStep(buf, walkAt))

DimsIteration ==
    Iterate("dimsLoop", dimsContinues(buf, walkAt), dimsStep(buf, walkAt))

WalkNext ==
    \/ \E b \in HeadBytes : PutByte(b)
    \/ PutSOI
    \/ \E s \in Segments : PutSegment(s)
    \/ PutStandalone
    \/ PutSOS
    \/ \E d \in Defects : PutDefect(d)
    \/ \E t \in TailPieces : PutTail(t)
    \/ StartStrip \/ StartInfo \/ StartDims
    \/ StripIteration \/ InfoIteration \/ DimsIteration

WalkSpec == Init /\ [][WalkNext]_vars

---------------------------------------------------------------------------
(* The handler of the virtual try-on function, one step per await.          *)

\* S3Utils.extractS3Key: a key is returned as it is, the path of a URL is
\* split at '/', its empty parts are dropped
extractS3Key(urlOrKey) ==
    IF ~urlOrKey.hasScheme THEN urlOrKey.parts
    ELSE SelectSeq(urlOrKey.parts, LAMBDA part : part # "")

\* whether GetObject finds the key
hasObject(key) == key \in Bucket

\* S3Utils.downloadImageAsBase64 of a key the bucket has
downloadImageAsBase64(key) == toBase64(S3Objects[key[3]].bytes)

\* variant: the object is written although the call fails
uploadedAnyway(ok, objects, key, base64Image) ==
    Append(objects, [key |-> key, body |-> base64Image])

\* S3Utils.uploadBase64Image: the objects of the bucket after the call
uploadBase64Image(ok, objects, key, base64Image) ==
    IF ok THEN Append(objects, [key |-> key, body |-> base64Image]) ELSE objects

\* variant: historyId is not among the required fields
missingRequiredNoHistory(arguments) ==
    \/ arguments.userId = ""
    \/ arguments.userPhotoUrl.parts = << >> \/ arguments.garmentPhotoUrl.parts = << >>

\* !userId || !userPhotoUrl || !garmentPhotoUrl || !historyId
missingRequired(arguments) ==
    \/ arguments.userId = "" \/ arguments.historyId = ""
    \/ arguments.userPhotoUrl.parts = << >> \/ arguments.garmentPhotoUrl.parts = << >>

\* parseInt(process.env.MAX_IMAGE_SIZE || '10485760')
maxImageSize(environment) ==
    IF environment.MAX_IMAGE_SIZE = Unset THEN DefaultMaxImageSize
    ELSE environment.MAX_IMAGE_SIZE

\* const maxPixelCount = 4194304
maxPixelCount == 4194304

\* n > k for a number n kept in two halves
greater(n, k) == n.hi > k \div 65536 \/ (n.hi = k \div 65536 /\ n.lo > k % 65536)

\* dimensions.width * dimensions.height > maxPixelCount
tooManyPixels(dimensions) ==
    LET w == dimensions.width
        h == dimensions.height
    IN  /\ w # Num(0)
        /\ IF w.hi > maxPixelCount \div 65536 THEN h # Num(0)
           ELSE greater(h, maxPixelCount \div (w.hi * 65536 + w.lo))

\* variant: only the user photo is measured
tooLargeUserOnly(userPhotoSize, garmentPhotoSize, MAX_IMAGE_SIZE) ==
    userPhotoSize.quarters > 4 * MAX_IMAGE_SIZE

\* userPhotoSize > MAX_IMAGE_SIZE || garmentPhotoSize > MAX_IMAGE_SIZE
tooLarge(userPhotoSize, garmentPhotoSize, MAX_IMAGE_SIZE) ==
    \/ userPhotoSize.quarters > 4 * MAX_IMAGE_SIZE
    \/ garmentPhotoSize.quarters > 4 * MAX_IMAGE_SIZE

\* step 3 of the handler: the message of the error it throws, "" if none
validationError(cleanUser, cleanGarment, MAX_IMAGE_SIZE) ==
    LET userDimensions == getImageDimensions(cleanUser)
        garmentDimensions == getImageDimensions(cleanGarment)
    IN  IF ~validateImageFormat(cleanUser)
        THEN "User photo is not in a supported format (JPEG or PNG)"
        ELSE IF ~validateImageFormat(cleanGarment)
        THEN "Garment photo is not in a supported format (JPEG or PNG)"
        ELSE IF ~userDimensions.isNull /\ tooManyPixels(userDimensions)
        THEN "User photo is too large"
        ELSE IF ~garmentDimensions.isNull /\ tooManyPixels(garmentDimensions)
        THEN "Garment photo is too large"
        ELSE IF tooLarge(getImageSize(cleanUser), getImageSize(cleanGarment), MAX_IMAGE_SIZE)
        THEN "Image size exceeds maximum allowed size (10MB)"
        ELSE ""

\* DynamoDBUtils.updateTryOnHistory: the record after the update.  The handler
\* has no call of it, so no step of the handler applies it.
updateTryOnHistory(record, updates) ==
    [record EXCEPT !.status = updates.status,
                   !.resultPhotoUrl = IF updates.resultPhotoUrl # << >>
                                      THEN updates.resultPhotoUrl ELSE @,
                   !.errorMessage = IF updates.errorMessage # ""
                                    THEN updates.errorMessage ELSE @]

\* variant: the message of the error is not passed on
failureNoMessage(historyId, errorMessage) ==
    [success |-> FALSE, historyId |-> historyId, errorMessage |-> "",
     resultUrl |-> << >>, returned |-> TRUE]

\* the return of the catch block and of the two early returns
failure(historyId, errorMessage) ==
    [success |-> FALSE, historyId |-> historyId, errorMessage |-> errorMessage,
     resultUrl |-> << >>, returned |-> TRUE]

\* `tryon-results/${userId}/result-${historyId}.jpg`
resultKey(userId, historyId) == <<"tryon-results", userId, "result-", historyId, ".jpg">>

\* the image Bedrock returns
ResultImage == toBase64(S3Objects.plain.bytes)

\* the handler is invoked for a record the client created with status PROCESSING;
\* it runs to its first await or returns
Invoke(arguments, environment) ==
    /\ pc = "build" /\ mode = "head" /\ buf = << >>
    /\ event' = arguments
    /\ env' = environment
    /\ history' = [NoHistory EXCEPT !.id = arguments.historyId, !.status = "PROCESSING"]
    /\ IF missingRequired(arguments)
       THEN /\ response' = failure(arguments.historyId, "Missing required fields")
            /\ pc' = "returned"
       ELSE IF environment.S3_BUCKET_NAME = ""
       THEN /\ response' = failure(arguments.historyId,
                                   "S3_BUCKET_NAME environment variable not configured")
            /\ pc' = "returned"
       ELSE /\ pc' = "downloadUser"
            /\ UNCHANGED response
    /\ UNCHANGED <<input, results, walkVars, thumbVars, userPhotoBase64, garmentPhotoBase64,
                   cleanUserPhotoBase64, cleanGarmentPhotoBase64, bedrockRequests, s3Gets,
                   s3Puts>>

\* the first download ends: with the object, or with an error
UserPhotoDownloaded ==
    /\ pc = "downloadUser"
    /\ s3Gets' = Append(s3Gets, extractS3Key(event.userPhotoUrl))
    /\ LET userPhotoKey == extractS3Key(event.userPhotoUrl) IN
       IF hasObject(userPhotoKey)
       THEN /\ userPhotoBase64' = downloadImageAsBase64(userPhotoKey)
            /\ pc' = "downloadGarment"
            /\ UNCHANGED response
       ELSE /\ response' = failure(event.historyId, "Failed to download image from S3")
            /\ pc' = "returned"
            /\ UNCHANGED userPhotoBase64
    /\ UNCHANGED <<input, results, walkVars, thumbVars, event, env, garmentPhotoBase64,
                   cleanUserPhotoBase64, cleanGarmentPhotoBase64, bedrockRequests, s3Puts,
                   history>>

\* the second download ends; on success steps 2 and 3 run, and the handler
\* calls Bedrock or throws
GarmentPhotoDownloaded ==
    /\ pc = "downloadGarment"
    /\ s3Gets' = Append(s3Gets, extractS3Key(event.garmentPhotoUrl))
    /\ LET garmentPhotoKey == extractS3Key(event.garmentPhotoUrl) IN
       IF ~hasObject(garmentPhotoKey)
       THEN /\ response' = failure(event.historyId, "Failed to download image from S3")
            /\ pc' = "returned"
            /\ UNCHANGED <<garmentPhotoBase64, cleanUserPhotoBase64,
                           cleanGarmentPhotoBase64, bedrockRequests>>
       ELSE LET downloaded == downloadImageAsBase64(garmentPhotoKey)
                cleanUser == processImageForBedrock(userPhotoBase64).value
                cleanGarment == processImageForBedrock(downloaded).value
                errorMessage == validationError(cleanUser, cleanGarment, maxImageSize(env))
            IN  /\ garmentPhotoBase64' = downloaded
                /\ cleanUserPhotoBase64' = cleanUser
                /\ cleanGarmentPhotoBase64' = cleanGarment
                /\ IF errorMessage # ""
                   THEN /\ response' = failure(event.historyId, errorMessage)
                        /\ pc' = "returned"
                        /\ UNCHANGED bedrockRequests
                   ELSE /\ bedrockRequests' =
                               Append(bedrockRequests,
                                      [sourceImage |-> cleanUser,
                                       referenceImage |-> cleanGarment])
                        /\ pc' = "bedrock"
                        /\ UNCHANGED response
    /\ UNCHANGED <<input, results, walkVars, thumbVars, event, env, userPhotoBase64, s3Puts, history>>

\* virtualTryOn ends: with an image, after which the upload starts, or with an error
BedrockResponded(ok) ==
    /\ pc = "bedrock"
    /\ IF ok
       THEN /\ pc' = "upload"
            /\ UNCHANGED response
       ELSE /\ response' = failure(event.historyId, "Virtual try-on failed")
            /\ pc' = "returned"
    /\ UNCHANGED <<input, results, walkVars, thumbVars, event, env, userPhotoBase64, garmentPhotoBase64,
                   cleanUserPhotoBase64, cleanGarmentPhotoBase64, bedrockRequests, s3Gets,
                   s3Puts, history>>

\* uploadBase64Image ends and the handler returns
UploadDone(ok) ==
    /\ pc = "upload"
    /\ response' =
           IF ok
           THEN [success |-> TRUE, historyId |-> event.historyId, errorMessage |-> "",
                 resultUrl |-> resultKey(event.userId, event.historyId), returned |-> TRUE]
           ELSE failure(event.historyId, "Failed to upload image to S3")
    /\ s3Puts' = uploadBase64Image(ok, s3Puts, resultKey(event.userId, event.historyId),
                                   ResultImage)
    /\ pc' = "returned"
    /\ UNCHANGED <<input, results, walkVars, thumbVars, event, env, userPhotoBase64, garmentPhotoBase64,
                   cleanUserPhotoBase64, cleanGarmentPhotoBase64, bedrockRequests, s3Gets,
                   history>>

Arguments ==
    [userId : {"", "u1"}, historyId : {"", "h1"},
     userPhotoUrl : PhotoUrls, garmentPhotoUrl : PhotoUrls]

Environments ==
    [S3_BUCKET_NAME : {"", "bucket"}, MAX_IMAGE_SIZE : {Unset, SmallMaxImageSize}]

\* an awaited call of a running invocation resolves or rejects
HandlerStep ==
    \/ UserPhotoDownloaded
    \/ GarmentPhotoDownloaded
    \/ \E ok \in BOOLEAN : BedrockResponded(ok)
    \/ \E ok \in BOOLEAN : UploadDone(ok)

HandlerNext ==
    \/ \E arguments \in Arguments, environment \in Environments :
           Invoke(arguments, environment)
    \/ HandlerStep

HandlerSpec == Init /\ [][HandlerNext]_vars

\* the requests that name the two shortest objects, a missing object or nothing
ShortUrls ==
    {u \in PhotoUrls : ~u.hasScheme /\ (u.parts # << >> => u.parts[3] \in {"tiny", "gif", MissingKey})}

ShortArguments == {a \in Arguments : a.userPhotoUrl \in ShortUrls /\ a.garmentPhotoUrl \in ShortUrls}

HandlerFairNext ==
    \/ \E arguments \in ShortArguments, environment \in Environments :
           Invoke(arguments, environment)
    \/ HandlerStep

\* the handler under the assumption that every awaited call of a running
\* invocation resolves or rejects
HandlerFairSpec == Init /\ [][HandlerFairNext]_vars /\ WF_vars(HandlerStep)

----------------------------------------------------------------------------
(***************************************************************************)
(* The thumbnail function of amplify/functions/image-processor/handler.ts. *)
(* An object key is a sequence of pieces of text, "/" and "." being pieces *)
(* of their own; in the key of an S3 event record a space is written "+"   *)
(* and a plus sign "%2B".                                                  *)
(***************************************************************************)
\* records of one S3 event
MaxRecords == 2

\* objects the function may write before the deliveries stop
MaxPuts == 4

\* process.env.THUMBNAIL_SIZE || '256'
THUMBNAIL_SIZE == 256

\* the object keys of the uploads, as S3 writes them in an event record
UploadKeys ==
    { <<"user-photos", "/", "u1", "/", "photo", ".", "png">>,
      <<"user-photos", "/", "u1", "/", "photo">>,
      <<"user-photos", "/", "u1", "/", "my", "+", "photo", "%2B", ".", "jpeg">>,
      <<"user-photos", "/", "u1", "/", "thumb-", "old", ".", "png">>,
      <<"tryon-results", "/", "u1", "/", "result", ".", "jpg">>,
      <<"garment-photos", "/", "u1", "/", "shirt", ".", "png">> }

\* event.Records of an upload
UploadEvents ==
    UNION {[1..n -> [key : UploadKeys]] : n \in 1..MaxRecords}

\* what the calls made for one record do: all succeed, GetObject rejects,
\* the response has no Body, sharp rejects, PutObject rejects
Outcomes == {"ok", "getFails", "noBody", "resizeFails", "putFails"}

\* decodeURIComponent(key.replace(/\+/g, ' '))
decodeKey(key) ==
    [k \in 1..Len(key) |-> CASE key[k] = "+" -> " "
                             [] key[k] = "%2B" -> "+"
                             [] OTHER -> key[k]]

\* the key of an object as S3 writes it in the event record of its creation
encodeKey(key) ==
    [k \in 1..Len(key) |-> CASE key[k] = " " -> "+"
                             [] key[k] = "+" -> "%2B"
                             [] OTHER -> key[k]]

\* key.includes('thumb-')
includesThumb(key) == \E k \in 1..Len(key) : key[k] = "thumb-"

\* key.startsWith(prefix + '/')
underPrefix(key, prefix) == Len(key) >= 2 /\ key[1] = prefix /\ key[2] = "/"

\* key.startsWith('user-photos/') || key.startsWith('tryon-results/')
shouldProcess(key) == underPrefix(key, "user-photos") \/ underPrefix(key, "tryon-results")

\* index of the last piece of key that is piece, 0 if there is none
lastIndexOf(key, piece) ==
    LET at == {k \in 1..Len(key) : key[k] = piece} IN
    IF at = {} THEN 0 ELSE CHOOSE k \in at : \A q \in at : q <= k

\* key.split('/') without its last part, and that last part
directory(key) == SubSeq(key, 1, lastIndexOf(key, "/"))
fileName(key) == SubSeq(key, lastIndexOf(key, "/") + 1, Len(key))

\* name.replace(/\.[^.]+$/, '.jpg'): the last dot and what follows it are
\* replaced if something follows it
replaceExtension(name) ==
    LET dot == lastIndexOf(name, ".") IN
    IF dot > 0 /\ dot < Len(name) THEN SubSeq(name, 1, dot - 1) \o <<".", "jpg">>
    ELSE name

\* a name that does not say "thumb-"
smallName(name) == <<"small-">> \o replaceExtension(name)

\* `thumb-${fileName.replace(/\.[^.]+$/, '.jpg')}`
thumbName(name) == <<"thumb-">> \o replaceExtension(name)

\* pathParts.join('/') after the last part was replaced
thumbKey(key) == directory(key) \o thumbName(fileName(key))

\* the error is thrown on to the caller of the handler
rethrown(at, n) == [at |-> n + 1, threw |-> TRUE]

\* catch (error) { console.error(...) }: the loop goes on with the next record
caught(at, n) == [at |-> at + 1, threw |-> FALSE]

\* the object written by PutObjectCommand
Thumbnail(key) ==
    [key |-> key, width |-> THUMBNAIL_SIZE, height |-> THUMBNAIL_SIZE,
     contentType |-> "image/jpeg"]

\* objects are uploaded: S3 has one event to deliver
Upload(e) ==
    /\ pc = "build" /\ buf = << >> /\ mode = "head"
    /\ uploads = << >>
    /\ uploads' = e
    /\ pending' = <<e>>
    /\ UNCHANGED <<input, pc, results, walkVars, handlerVars, records, recordAt, trail,
                   threw, thumbGets, thumbPuts>>

\* S3 invokes the handler with the next event
Deliver ==
    /\ recordAt = 0 /\ pending # << >>
    /\ Len(thumbPuts) < MaxPuts
    /\ records' = Head(pending)
    /\ pending' = Tail(pending)
    /\ recordAt' = 1
    /\ trail' = << >>
    /\ threw' = FALSE
    /\ UNCHANGED <<input, pc, results, walkVars, handlerVars, uploads, thumbGets, thumbPuts>>

\* one iteration of for (const record of event.Records)
ExamineRecord(outcome) ==
    /\ recordAt \in 1..Len(records)
    /\ \E key \in {decodeKey(records[recordAt].key)} :
       LET n == Len(records)
           step(calls, result, written) ==
               [key |-> key, outcome |-> calls, result |-> result, written |-> written]
       IN
       IF includesThumb(key)
       THEN /\ trail' = Append(trail, step("none", "Skipping thumbnail", << >>))
            /\ recordAt' = recordAt + 1
            /\ UNCHANGED <<threw, thumbGets, thumbPuts, pending>>
       ELSE IF ~shouldProcess(key)
       THEN /\ trail' = Append(trail, step("none", "Skipping non-image path", << >>))
            /\ recordAt' = recordAt + 1
            /\ UNCHANGED <<threw, thumbGets, thumbPuts, pending>>
       ELSE /\ thumbGets' = Append(thumbGets, key)
            /\ CASE outcome = "noBody" ->
                      /\ trail' = Append(trail, step(outcome, "No body in S3 response", << >>))
                      /\ recordAt' = recordAt + 1
                      /\ UNCHANGED <<threw, thumbPuts, pending>>
                 [] outcome = "ok" ->
                      /\ trail' = Append(trail, step(outcome, "Thumbnail created", <<thumbKey(key)>>))
                      /\ thumbPuts' = Append(thumbPuts, Thumbnail(thumbKey(key)))
                      /\ pending' = Append(pending, <<[key |-> encodeKey(thumbKey(key))]>>)
                      /\ recordAt' = recordAt + 1
                      /\ UNCHANGED threw
                 [] OTHER ->
                      /\ trail' = Append(trail, step(outcome, "Error processing image", << >>))
                      /\ recordAt' = caught(recordAt, n).at
                      /\ threw' = caught(recordAt, n).threw
                      /\ UNCHANGED <<thumbPuts, pending>>
    /\ UNCHANGED <<input, pc, results, walkVars, handlerVars, uploads, records>>

\* the loop is over: the handler returns
ThumbReturn ==
    /\ recordAt > Len(records) /\ recordAt # 0
    /\ recordAt' = 0
    /\ UNCHANGED <<input, pc, results, walkVars, handlerVars, uploads, pending, records, trail,
                   threw, thumbGets, thumbPuts>>

\* trail: one entry per examined record, [key, outcome, result, written], where
\* outcome is "none" if no call was made for the record, result is the line
\* written to the console and written holds the key of the object put

\* what S3 and the function do once objects are uploaded
ThumbStep ==
    \/ Deliver
    \/ \E outcome \in Outcomes : ExamineRecord(outcome)
    \/ ThumbReturn

ThumbNext ==
    \/ \E e \in UploadEvents : Upload(e)
    \/ ThumbStep

ThumbSpec == Init /\ [][ThumbNext]_vars

\* uploads of three of the keys: one the function works on, one whose name
\* says 'thumb-' and one under garment-photos/
ShortKeys == {key \in UploadKeys : Len(key) > 5 /\ key[5] \in {"photo", "thumb-", "shirt"}}

ShortUploadEvents == {e \in UploadEvents : \A k \in 1..Len(e) : e[k].key \in ShortKeys}

ThumbFairNext ==
    \/ \E e \in ShortUploadEvents : Upload(e)
    \/ ThumbStep

\* the thumbnail function under the assumption that S3 delivers every event
\* and that every awaited call of a running invocation resolves or rejects
ThumbFairSpec == Init /\ [][ThumbFairNext]_vars /\ WF_vars(ThumbStep)

---------------------------------------------------------------------------
\* indices of the composed segments that are APP1, and of those that are not
app1Segs == {k \in 1..Len(segs) : segs[k].marker = 225}

\* sum over the APP1 segments of 2 + length field
RECURSIVE app1Bytes(_)
app1Bytes(k) ==
    IF k = 0 THEN 0
    ELSE app1Bytes(k - 1)
         + (IF segs[k].marker = 225 THEN 2 + be16(segs[k].off + 2) ELSE 0)

\* the bytes of the segments 1..k that are not APP1, in order
RECURSIVE keptBytes(_)
keptBytes(k) ==
    IF k = 0 THEN << >>
    ELSE keptBytes(k - 1)
         \o (IF segs[k].marker = 225 THEN << >>
             ELSE SubSeq(buf, segs[k].off + 1, segs[k].off + segs[k].total))

\* the input from the SOS marker to its end
scanBytes == SubSeq(buf, sosAt + 1, Len(buf))

lineOf(lines, text) == \E k \in 1..Len(lines) : lines[k] = text

\* the walk of the input meets an anomaly that no trailing data repairs
anomaly ==
    /\ mode = "broken"
    /\ \/ defect.kind = "nonff"
       \/ defect.kind = "overrun" /\ defect.off + 2 + be16(defect.off + 2) > Len(buf)
       \/ defect.kind = "nolen" /\ defect.off + 4 > Len(buf)

\* the frame headers among the composed segments, and the first of them
frameSegs(markers) == {k \in 1..Len(segs) : segs[k].marker \in markers}
firstOf(S) == CHOOSE k \in S : \A q \in S : k <= q

---------------------------------------------------------------------------
(* Properties *)

\* C1 (as claimed): a buffer that begins with FF D8 and holds no APP1 segment
\* (here: no byte 0xE1 at all, so the walk can meet none) comes back from
\* processImageForBedrock byte for byte, whatever its length.
C1_NoOpWithoutAPP1 ==
    (processed /\ startsJPEG(buf) /\ \A k \in 1..Len(buf) : buf[k] # 225)
        => cleanBytes = buf

\* C2: applying processImageForBedrock to its own output gives that output again,
\* for every input, the fallbacks to the original included.
C2_Idempotent == pc = "done" => clean2 = clean

\* C2 witness: an input from which an APP1 segment was removed, stripped twice.
C2_Witness ==
    /\ pc = "done"
    /\ lineOf(log, "Skipping EXIF segment")
    /\ Len(cleanBytes) < Len(buf)
    /\ clean2 = clean

\* C3: for SOI, complete segments, SOS and trailing data, the output is shorter than
\* the input by the sum of 2 + length field over the APP1 segments before SOS, and
\* the stripper's walk over the output runs to SOS and meets no APP1 segment.
C3_Removal ==
    (pc = "done" /\ mode = "sos") =>
        /\ Len(cleanBytes) = Len(buf) - app1Bytes(Len(segs))
        /\ log2 = <<"Processing JPEG to remove EXIF metadata">>

\* C3 witness: one 20-byte APP1 (length field 18) right after SOI, then SOS and
\* trailing data: the output is 20 bytes shorter.
C3_Witness ==
    /\ pc = "done" /\ mode = "sos" /\ ntail > 0
    /\ Len(segs) = 1 /\ segs[1].marker = 225 /\ segs[1].off = 2
    /\ be16(4) = 18
    /\ Len(cleanBytes) = Len(buf) - 20

\* C4: for SOI, complete segments, SOS and trailing data, the output is SOI, then
\* every segment that is not APP1 in the original order and unchanged, then the
\* input from the SOS marker to its end.
C4_VerbatimCopy ==
    (processed /\ mode = "sos") =>
        cleanBytes = <<255, 216>> \o keptBytes(Len(segs)) \o scanBytes

\* C4 witness: an APP1 and a segment that is kept, then SOS and trailing data.
C4_Witness ==
    /\ processed /\ mode = "sos" /\ ntail > 0
    /\ app1Segs # {} /\ app1Segs # 1..Len(segs)
    /\ cleanBytes # buf

\* C5: for every input that begins with FF D8 the output begins with FF D8, and
\* when the walk reaches SOS the output ends with the input's bytes from SOS on,
\* bytes that read as an APP1 segment included.
C5_StartAndScanKept ==
    (processed /\ startsJPEG(buf)) =>
        /\ startsJPEG(cleanBytes)
        /\ mode = "sos" =>
            /\ Len(cleanBytes) >= Len(scanBytes)
            /\ SubSeq(cleanBytes, Len(cleanBytes) - Len(scanBytes) + 1, Len(cleanBytes))
                   = scanBytes

\* C5 witness: an APP1 segment before SOS is removed while the trailing data
\* FF E1 00 02 after SOS stays.
C5_Witness ==
    /\ processed /\ mode = "sos" /\ app1Segs # {}
    /\ scanBytes = <<255, 218, 255, 225, 0, 2>>
    /\ Len(cleanBytes) < Len(buf)
    /\ SubSeq(cleanBytes, Len(cleanBytes) - 5, Len(cleanBytes)) = scanBytes

\* C6 (as claimed): whenever the walk meets an anomaly (a byte that is not 0xFF at
\* a marker position, a length field cut by the end of the buffer, a segment whose
\* declared extent passes the end), the output is the original buffer.
C6_FallbackOnAnomaly == (processed /\ anomaly) => cleanBytes = buf

\* C7: an input that does not begin with FF D8 comes back unchanged, and the
\* call's only console line is that of the early return: the walk is not entered.
C7_NonJPEGPassthrough ==
    (processed /\ ~startsJPEG(buf)) =>
        /\ clean = image
        /\ log = <<"Image is not JPEG, returning as-is">>

\* C7 witness: a PNG signature and a single byte, both processed.
C7_Witness ==
    /\ processed
    /\ buf = <<137, 80, 78, 71>> \/ buf = <<255>>
    /\ clean = image

\* C8: validateImageFormat accepts a buffer exactly when its first two bytes are
\* FF D8 or its first four are 89 50 4E 47, at every length.
C8_FormatSniffing ==
    pc \in {"validated", "done"} => (valid <=> (startsJPEG(buf) \/ startsPNG(buf)))

\* C8 witness: the PNG signature is accepted.
C8_Witness == pc = "validated" /\ buf = <<137, 80, 78, 71>> /\ valid

\* C9 (as claimed): for SOI and complete segments, getImageInfo reports the height
\* and width of the first SOF0 segment, at whatever offset it starts, and (0,0)
\* when there is no frame header.
C9_JpegDimensions ==
    (pc # "build" /\ wellFormed) =>
        IF frameSegs({192}) # {}
        THEN LET o == segs[firstOf(frameSegs({192}))].off IN
             /\ info.format = "jpeg"
             /\ info.height = Num(be16(o + 5))
             /\ info.width = Num(be16(o + 7))
        ELSE frameSegs({192, 193, 194}) = {} => (info.width = Num(0) /\ info.height = Num(0))

\* C10 (as claimed): a JPEG whose first frame header is SOF1 or SOF2 gets the
\* height and width of that segment from getImageInfo.
C10_SOFnCoverage ==
    (pc # "build" /\ wellFormed /\ frameSegs({192, 193, 194}) # {}) =>
        LET s == segs[firstOf(frameSegs({192, 193, 194}))] IN
        s.marker \in {193, 194} =>
            /\ info.height = Num(be16(s.off + 5))
            /\ info.width = Num(be16(s.off + 7))

\* big-endian 32-bit value at a 0-based offset of the input, as two 16-bit halves
be32(off) == [hi |-> be16(off), lo |-> be16(off + 2)]

\* C11: for a buffer of at least 24 bytes that begins 89 50 4E 47, getImageInfo
\* reports format png, width = the unsigned big-endian 32-bit value at offset 16 and
\* height = the one at offset 20, both within 0..2^32 - 1.
C11_PngDimensions ==
    (pc \notin {"build", "sized"} /\ startsPNG(buf) /\ Len(buf) >= 24) =>
        /\ info.format = "png"
        /\ info.width = be32(16)
        /\ info.height = be32(20)
        /\ \A n \in {info.width, info.height} : n.hi \in 0..65535 /\ n.lo \in 0..65535

\* C11 witness: a PNG of width 2^32 - 1 and height 2^31, inspected.
C11_Witness ==
    /\ pc = "info" /\ mode = "png" /\ Len(buf) = 24
    /\ info.width = [hi |-> 65535, lo |-> 65535]
    /\ info.height = [hi |-> 32768, lo |-> 0]

\* the last complete segment is followed by a marker whose length field is cut
cutHeader == mode = "broken" /\ defect.kind = "nolen" /\ defect.off + 4 > Len(buf)

\* C12 (as claimed): when a read needed for the dimensions falls outside the buffer
\* (a PNG below 24 bytes, a JPEG whose segment header is cut), getImageInfo reports
\* width 0 and height 0, keeps the sniffed format and keeps hasExif as set so far.
C12_FailSoftKeepsFormat ==
    /\ (pc \notin {"build", "sized"} /\ startsPNG(buf) /\ Len(buf) < 24) =>
           info = [format |-> "png", width |-> Num(0), height |-> Num(0), hasExif |-> FALSE]
    /\ (pc \notin {"build", "sized"} /\ cutHeader) =>
           info = [format |-> "jpeg", width |-> Num(0), height |-> Num(0),
                   hasExif |-> (app1Segs # {})]

\* C13: for an input of 0 or 1 bytes, getImageInfo reports unknown, 0, 0, no EXIF,
\* validateImageFormat rejects it and processImageForBedrock returns it unchanged,
\* none of them through an error path.
C13_DegenerateInput ==
    (pc = "done" /\ Len(buf) <= 1) =>
        /\ info = [format |-> "unknown", width |-> Num(0), height |-> Num(0),
                   hasExif |-> FALSE]
        /\ valid = FALSE
        /\ clean = image
        /\ ~lineOf(log, "Error processing image, returning original")

\* C13 witness: the single byte FF has gone through the three calls.
C13_Witness == pc = "done" /\ buf = <<255>> /\ clean = image /\ ~valid

\* C14 (as claimed): for a string of n characters with p padding characters
\* getImageSize returns the integer floor(n * 3/4) - p, for every n.
C14_SizeEstimate ==
    pc = "sized" =>
        size.quarters = 4 * (((3 * Len(encoded)) \div 4) - paddingCount(encoded))

\* C16 (as claimed): for SOI and complete segments, with or without SOS and
\* trailing data, hasExif is true exactly when one of the segments before SOS is
\* APP1, wherever it lies.
C16_ExifDetection ==
    (pc \notin {"build", "sized"} /\ wellFormed) => (info.hasExif <=> app1Segs # {})

\* a loop is being executed
walking == pc \in {"stripWalk", "infoWalk", "dimsLoop"}

\* C15: the loops of stripJPEGExif, getImageInfo and getImageDimensions make at
\* most as many iterations as the buffer has bytes, and an iteration that does not
\* leave the loop raises the offset, by at least 2 in the two marker walks.
C15_WalksTerminate ==
    /\ [](iters <= Len(buf))
    /\ [][(walking /\ pc' = pc) =>
            walkAt' >= walkAt + (IF pc = "dimsLoop" THEN 1 ELSE 2)]_vars

\* C15 witness: the strip walk has left its loop after passing a segment that
\* declares more bytes than the buffer has.
C15_Witness ==
    /\ pc = "stopped" /\ mode = "broken" /\ defect.kind = "overrun"
    /\ walkAt > Len(buf) /\ iters >= 2

\* the objects whose encoded width x height exceeds 2048 x 2048
oversized == {k \in Keys : S3Objects[k].w * S3Objects[k].h > 2048 * 2048}

\* the downloaded photo is one of these objects
isOneOf(base64Image, keys) == \E k \in keys : base64Image = toBase64(S3Objects[k].bytes)

\* C17 (as claimed): virtualTryOn is never called with a user or garment photo
\* whose encoded width x height exceeds 4,194,304 pixels; the handler returns
\* success = false for such a photo.
C17_PixelGate ==
    (isOneOf(userPhotoBase64, oversized) \/ isOneOf(garmentPhotoBase64, oversized)) =>
        /\ bedrockRequests = << >>
        /\ pc = "returned" => ~response.success

\* the decoded bytes begin with the JPEG or the PNG magic number
magicOK(base64Image) ==
    LET b == fromBase64(base64Image) IN startsJPEG(b) \/ startsPNG(b)

\* the estimate n * 3/4 - p of the decoded size is at most the configured limit
sizeOK(base64Image) ==
    LET p == Cardinality({k \in 1..Len(base64Image) : base64Image[k] = 64})
        limit == IF env.MAX_IMAGE_SIZE = -1 THEN 10485760 ELSE env.MAX_IMAGE_SIZE
    IN  3 * Len(base64Image) - 4 * p <= 4 * limit

\* both cleaned images pass the format check and the size check
gatePassed ==
    /\ magicOK(cleanUserPhotoBase64) /\ magicOK(cleanGarmentPhotoBase64)
    /\ sizeOK(cleanUserPhotoBase64) /\ sizeOK(cleanGarmentPhotoBase64)

\* C18: virtualTryOn is called only after both cleaned images passed
\* validateImageFormat and both size estimates are at most MAX_IMAGE_SIZE; when a
\* check fails the handler returns success = false with an error message, and
\* there is no Bedrock call and no upload.
C18_FormatAndSizeGate ==
    /\ bedrockRequests # << >> => gatePassed
    /\ (garmentPhotoBase64 # << >> /\ ~gatePassed) =>
           /\ pc = "returned"
           /\ ~response.success /\ response.errorMessage # ""
           /\ bedrockRequests = << >> /\ s3Puts = << >>

\* C18 witness: the garment photo alone is above the limit and the handler has
\* returned the size error.
C18_Witness ==
    /\ pc = "returned" /\ garmentPhotoBase64 # << >>
    /\ magicOK(cleanUserPhotoBase64) /\ magicOK(cleanGarmentPhotoBase64)
    /\ sizeOK(cleanUserPhotoBase64) /\ ~sizeOK(cleanGarmentPhotoBase64)
    /\ response.errorMessage = "Image size exceeds maximum allowed size (10MB)"

\* whether the marker segments of b from 0-based offset i on, up to SOS, hold an APP1
RECURSIVE app1BeforeSOS(_, _)
app1BeforeSOS(b, i) ==
    IF i + 1 >= Len(b) \/ b[i + 1] # 255 THEN FALSE
    ELSE IF b[i + 2] = 225 THEN TRUE
    ELSE IF b[i + 2] = 218 THEN FALSE
    ELSE IF b[i + 2] \in 208..217 THEN app1BeforeSOS(b, i + 2)
    ELSE IF i + 3 >= Len(b) THEN FALSE
    ELSE app1BeforeSOS(b, i + 2 + b[i + 3] * 256 + b[i + 4])

\* C19 (as claimed): every JPEG image passed to virtualTryOn holds no APP1 segment
\* before its SOS marker, malformed and truncated JPEGs included.
C19_ExifFreeInput ==
    \A k \in 1..Len(bedrockRequests) :
        \A base64Image \in {bedrockRequests[k].sourceImage, bedrockRequests[k].referenceImage} :
            LET b == fromBase64(base64Image) IN startsJPEG(b) => ~app1BeforeSOS(b, 2)

\* C20 (as claimed): once the handler has finished for a historyId, the
\* TryOnHistory record is COMPLETED with the result after a success and FAILED with
\* the error message after a failure.
C20_StatusUpdated ==
    (pc = "returned" /\ event.historyId # "") =>
        IF response.success
        THEN history.status = "COMPLETED" /\ history.resultPhotoUrl = response.resultUrl
        ELSE history.status = "FAILED" /\ history.errorMessage = response.errorMessage

\* C21 (as claimed): the handler downloads only objects under user-photos/{userId}/
\* and garment-photos/{userId}/ of the requesting user and writes only under
\* tryon-results/{userId}/, whatever the request carries.
C21_OwnerOnly ==
    /\ \A k \in 1..Len(s3Gets) :
           /\ Len(s3Gets[k]) >= 3
           /\ s3Gets[k][1] \in {"user-photos", "garment-photos"}
           /\ s3Gets[k][2] = event.userId
    /\ \A k \in 1..Len(s3Puts) :
           s3Puts[k].key[1] = "tryon-results" /\ s3Puts[k].key[2] = event.userId

\* steps 2 and 3 have run: both photos are there
inspected == userPhotoBase64 # << >> /\ garmentPhotoBase64 # << >>

\* C23: Bedrock is called only after both downloads, the cleaning and the
\* validation; the result is written only after Bedrock returned an image;
\* success = true is returned only after that write; and a failed run returns
\* success = false and has written no object under tryon-results/.
C23_StepOrdering ==
    /\ bedrockRequests # << >> =>
           /\ Len(s3Gets) = 2 /\ inspected
           /\ bedrockRequests[1].sourceImage = cleanUserPhotoBase64
           /\ bedrockRequests[1].referenceImage = cleanGarmentPhotoBase64
           /\ gatePassed
    /\ pc = "upload" => Len(bedrockRequests) = 1 /\ s3Puts = << >>
    /\ s3Puts # << >> =>
           /\ Len(bedrockRequests) = 1 /\ Len(s3Puts) = 1
           /\ pc = "returned" /\ response.success
    /\ (pc = "returned" /\ response.success) =>
           /\ Len(s3Puts) = 1
           /\ s3Puts[1].key = response.resultUrl
           /\ s3Puts[1].key[1] = "tryon-results"
    /\ (pc = "returned" /\ ~response.success) => s3Puts = << >>

\* C23 witness: Bedrock returned an image and the upload failed.
C23_Witness ==
    /\ pc = "returned" /\ Len(bedrockRequests) = 1
    /\ response.errorMessage = "Failed to upload image to S3"

\* C24: with userId, userPhotoUrl, garmentPhotoUrl or historyId missing, or
\* without S3_BUCKET_NAME, the handler returns success = false with a message and
\* makes no download, no Bedrock call and no upload.
C24_RequiredFields ==
    (pc # "build"
     /\ \/ event.userId = "" \/ event.historyId = ""
        \/ event.userPhotoUrl.parts = << >> \/ event.garmentPhotoUrl.parts = << >>
        \/ env.S3_BUCKET_NAME = "") =>
        /\ pc = "returned"
        /\ ~response.success /\ response.errorMessage # ""
        /\ s3Gets = << >> /\ bedrockRequests = << >> /\ s3Puts = << >>

\* C24 witness: only historyId is missing.
C24_Witness ==
    /\ pc = "returned" /\ event.historyId = "" /\ event.userId # ""
    /\ event.userPhotoUrl.parts # << >> /\ event.garmentPhotoUrl.parts # << >>
    /\ env.S3_BUCKET_NAME # ""

RECURSIVE subsequence(_, _, _, _)
subsequence(a, i, b, j) ==
    IF i > Len(a) THEN TRUE
    ELSE LET found == {k \in j..Len(b) : b[k] = a[i]} IN
         IF found = {} THEN FALSE
         ELSE subsequence(a, i + 1, b, (CHOOSE k \in found : \A q \in found : k <= q) + 1)

\* C28: what comes back is a subsequence of the input bytes and is not longer
\* than the input, for a JPEG input it begins with SOI, and the input is not
\* written to once a function has been applied to it.
C28_OnlyDeletes ==
    /\ [](processed =>
             /\ Len(cleanBytes) <= Len(buf)
             /\ cleanBytes = buf \/ subsequence(cleanBytes, 1, buf, 1)
             /\ startsJPEG(buf) => startsJPEG(cleanBytes))
    /\ [][pc # "build" => buf' = buf]_vars

\* C28 witness: an APP1 segment between two kept segments was deleted.
C28_Witness ==
    /\ pc = "processed" /\ mode = "sos" /\ Len(segs) = 2
    /\ segs[1].marker = 225 /\ segs[2].marker # 225
    /\ Len(cleanBytes) = Len(buf) - segs[1].total

\* C29 (as claimed): for a JPEG buffer hasExif is true exactly when
\* processImageForBedrock removes an APP1 segment, and hasExif = false implies
\* that the processed image is the input byte for byte.
C29_DetectionAgreesWithRemoval ==
    (processed /\ startsJPEG(buf)) =>
        /\ info.hasExif <=> (app1Segs # {} /\ cleanBytes # buf)
        /\ ~info.hasExif => clean = image

\* C30 (as claimed): for a buffer that validateImageFormat accepts,
\* getImageDimensions and getImageInfo report the same width and height
\* (none and 0 x 0 agree).
C30_ExtractorsAgree ==
    (pc = "measured" /\ valid) =>
        IF imageDimensions.isNull THEN info.width = Num(0) /\ info.height = Num(0)
        ELSE imageDimensions.width = info.width /\ imageDimensions.height = info.height

----------------------------------------------------------------------------
\* the records an invocation has examined, by index
examined == 1..Len(trail)

\* whether a key is that of an object the function wrote itself
generated(key) == \E k \in 1..Len(thumbPuts) : thumbPuts[k].key = key

\* a file name without its extension
basename(name) ==
    LET dot == lastIndexOf(name, ".") IN
    IF dot > 0 /\ dot < Len(name) THEN SubSeq(name, 1, dot - 1) ELSE name

\* <same directory>/thumb-<basename>.jpg
alongside(key) == directory(key) \o <<"thumb-">> \o basename(fileName(key)) \o <<".", "jpg">>

\* C22 (as claimed): a record whose calls all succeed and whose key is under
\* user-photos/ or tryon-results/ and is not a generated thumbnail gets exactly
\* one thumbnail at <same directory>/thumb-<basename>.jpg, and a record under
\* any other prefix gets none.
C22_OneThumbnailAlongside ==
    \A k \in examined :
        LET key == trail[k].key IN
        IF shouldProcess(key) /\ ~generated(key)
        THEN trail[k].outcome \in {"ok", "none"} => trail[k].written = <<alongside(key)>>
        ELSE shouldProcess(key) \/ trail[k].written = << >>

\* no S3 event is waiting and no invocation runs
quiet == pending = << >> /\ recordAt = 0

\* C26: every written key contains 'thumb-'; a record whose key contains
\* 'thumb-' is passed over without a GetObject, a PutObject or a new event;
\* there are at most as many writes as uploaded records; and once objects are
\* uploaded a state with no pending work is reached and kept.
C26_NoFeedbackLoop ==
    /\ [](\A k \in 1..Len(thumbPuts) : includesThumb(thumbPuts[k].key))
    /\ [](Len(thumbPuts) <= Len(uploads))
    /\ [][(recordAt \in 1..Len(records) /\ includesThumb(decodeKey(records[recordAt].key)))
            => (thumbGets' = thumbGets /\ thumbPuts' = thumbPuts /\ pending' = pending)]_vars
    /\ [](uploads # << >> => <>[]quiet)

\* C26 witness: the event of a written thumbnail came back, was passed over
\* and nothing is left to do.
C26_Witness ==
    /\ quiet /\ thumbPuts # << >>
    /\ Len(records) = 1 /\ generated(decodeKey(records[1].key))
    /\ Len(trail) = 1 /\ trail[1].result = "Skipping thumbnail"

\* whether the function has work to do on a key
eligible(key) == shouldProcess(key) /\ ~includesThumb(key)

\* C27: an invocation ends, without an error, after it examined every record
\* of its event in order, whatever failed on the way, and each eligible
\* record whose own calls succeeded has its thumbnail in the bucket.
C27_FailureIsolation ==
    /\ [](recordAt # 0 => <>(recordAt = 0))
    /\ []((recordAt = 0 /\ records # << >>) =>
             /\ ~threw
             /\ Len(trail) = Len(records)
             /\ \A k \in examined :
                    /\ trail[k].key = decodeKey(records[k].key)
                    /\ (eligible(trail[k].key) /\ trail[k].outcome = "ok") =>
                           /\ trail[k].result = "Thumbnail created"
                           /\ generated(thumbKey(trail[k].key)))

\* C27 witness: the first record of an event failed (download, resize or
\* upload were tried in turn) and the second one got its thumbnail.
C27_Witness ==
    /\ recordAt = 0 /\ Len(records) = 2 /\ Len(trail) = 2
    /\ trail[1].result = "Error processing image" /\ trail[1].outcome = "resizeFails"
    /\ trail[2].result = "Thumbnail created"

=============================================================================
